---- MODULE Spec2Model ----
(***************************************************************************)
(* State-machine model of the two runbooks of the repository:              *)
(*   src/backupsnappy.py    (snapshot creation job,  "backup" flow)        *)
(*   src/deletionsnappy.py  (snapshot deletion job,  "deletion" flow)      *)
(* A run is one execution of main().  Every call into the afs_snappy       *)
(* library (identity, storage account, file share, alerting) is a step     *)
(* whose outcome is chosen by the environment.  The storage backend        *)
(* (snapshots per file share, soft-delete flag, clock) persists across     *)
(* runs; everything else is process state and is rebuilt by StartRun.      *)
(***************************************************************************)
EXTENDS Integers, Sequences, FiniteSets

(* ------------------------------ bounds -------------------------------- *)
\* snapshots present in the backend before the first run (all volumes)
MaxSnaps == 2
\* runs executed one after the other against the same backend
MaxRuns == 2
\* clock ticks per calendar day (resolution of timestamps)
TicksPerDay == 2

(* ----------------------------- constants ------------------------------ *)
AFS_SOFTDELETE_RETENTION_DAYS == 7
AFS_TOTAL_SNAPSHOTS_LIMIT == 200

AllowedListWith91 ==
    {3, 7, 15, 30, 45, 60, 67, 91, 180, 365, 730, 1095, 1460, 1825}

allowed_adhoc_backup_retention_days_list ==
    {3, 7, 15, 30, 45, 60, 67, 90, 180, 365, 730, 1095, 1460, 1825}

(* ------------------------------ values -------------------------------- *)
Volumes == {"v1", "v2"}
\* get_afs_list returns the file shares in the backend's order, minus the
\* excluded ones
Listings == {<< >>, <<"v1">>, <<"v2">>, <<"v1", "v2">>}

\* An optional integer: << >> is Python's None (or a non-numeric string),
\* <<n>> is the integer n (or the string that spells it).
None == << >>
Some(n) == <<n>>
IsSome(x) == Len(x) = 1
Val(x) == x[1]

NoVol == "-"

\* the clock at the first run, and how far it may advance
Clock0 == 2 * TicksPerDay
MaxClock == Clock0 + TicksPerDay

\* what a backup run may be started with: ad-hoc or not (sys.argv[1] given),
\* and the RetentionDays string (not a number, 90, 91)
RunInputs ==
    { [adhoc |-> FALSE, rdays |-> None],
      [adhoc |-> FALSE, rdays |-> Some(90)],
      [adhoc |-> TRUE,  rdays |-> None],
      [adhoc |-> TRUE,  rdays |-> Some(90)],
      [adhoc |-> TRUE,  rdays |-> Some(91)] }

SnapshotKinds ==
    { [created_at |-> 0,           retention_days |-> None],
      [created_at |-> 0,           retention_days |-> Some(-1)],
      [created_at |-> TicksPerDay, retention_days |-> Some(0)],
      [created_at |-> TicksPerDay, retention_days |-> Some(1)],
      [created_at |-> 0,           retention_days |-> Some(1)] }

SeqsUpTo(S, n) == UNION { [1..k -> S] : k \in 0..n }

NoSnap == [name |-> 0, created_at |-> 0, retention_days |-> None, adhoc |-> FALSE]

\* names the snapshots of an initial backend 1, 2, ... in volume order
InitialSnapshots(kinds) ==
    [v \in Volumes |->
        LET off == IF v = "v1" THEN 0 ELSE Len(kinds["v1"])
        IN  [i \in 1..Len(kinds[v]) |->
                [name |-> off + i,
                 created_at |-> kinds[v][i].created_at,
                 retention_days |-> kinds[v][i].retention_days,
                 adhoc |-> FALSE]]]

InitialBackends ==
    { InitialSnapshots(k) :
        k \in { f \in [Volumes -> SeqsUpTo(SnapshotKinds, MaxSnaps)] :
                    Len(f["v1"]) + Len(f["v2"]) <= MaxSnaps } }

(* ------------------------------- state -------------------------------- *)
VARIABLES
    \* the backend and the world, kept across runs
    clock,              \* get_current_datetime(), in ticks
    afs_snapshots,      \* volume -> sequence of snapshots (listing order)
    softdelete,         \* soft delete enabled on the storage account
    next_name,          \* name given to the next snapshot created
    created_log,        \* every successful create_snapshot, over all runs
    runs,               \* runs started so far
    previous,           \* history: what the run before this one left in the
                        \* backend: the snapshots that were due for deletion
                        \* at its 'now', those it reached, those whose
                        \* deleteSnapshot failed
    \* one run (one process)
    flow,               \* the runbook the runs execute: "backup" | "deletion"
    pc,                 \* position in main()
    is_adhoc_backup,    \* sys.argv[1] was given
    retention_days,     \* the RetentionDays string of the run
    current_date_time,  \* main()'s current_date_time
    afs_list,           \* afs_list_in_storage.afs_list
    idx,                \* position of the for loop over afs_list
    snapshot_list,      \* snapshot_list.snapshots of the current volume
    sidx,               \* position of the for loop over snapshot_list
    listed_totals,      \* history: snapshot_list.total of each listing of the run
    is_expired,         \* is_expired of __delete_snapshots_in_afs
    snapshots_created,  \* global counter of backupsnappy.py
    deleted_snapshots,  \* global counter of deletionsnappy.py
    alerts,             \* alerting.send calls of the run, in order
    calls,              \* library calls of the run, in order
    summary,            \* the total of the final "job completed" line, once written
    exit_code           \* the process status, once the process has ended

backend == <<clock, afs_snapshots, softdelete, next_name, created_log, runs, previous>>
inputs  == <<flow, is_adhoc_backup, retention_days, current_date_time>>
loop    == <<afs_list, idx, snapshot_list, sidx, listed_totals, is_expired>>
counters == <<snapshots_created, deleted_snapshots>>
vars == <<clock, afs_snapshots, softdelete, next_name, created_log, runs, previous,
          flow, pc, is_adhoc_backup, retention_days, current_date_time,
          afs_list, idx, snapshot_list, sidx, listed_totals, is_expired,
          snapshots_created,
          deleted_snapshots, alerts, calls, summary, exit_code>>

(* ----------------------------- recording ------------------------------ *)
Call(op, vol, snap, ok) == [op |-> op, vol |-> vol, snap |-> snap, ok |-> ok]
\* a query that returned, with the boolean it returned
Answered(op, vol, answer) ==
    [op |-> op, vol |-> vol, snap |-> NoSnap, ok |-> TRUE, answer |-> answer]
Alert(type, site, vol, snap) ==
    [type |-> type, site |-> site, vol |-> vol, snap |-> snap]


(* ======================= pure functions =============================== *)

\* datetime subtraction followed by timedelta.days: whole days, rounded
\* towards minus infinity
DaysBetween(later, earlier) == (later - earlier) \div TicksPerDay

\* deletionsnappy.__has_snapshot_expired
HasSnapshotExpiredGE(now, snapshot) ==
    DaysBetween(now, snapshot.created_at) >= Val(snapshot.retention_days)

has_snapshot_expired(now, snapshot) ==
    LET created_since == DaysBetween(now, snapshot.created_at)
    IN  created_since > Val(snapshot.retention_days)

\* the condition of the loop body of __delete_snapshots_in_afs:
\*   snapshot.retention_days and snapshot.retention_days >= 0
\* (None and 0 are both false in Python)
RetentionGateNoSign(snapshot) ==
    /\ IsSome(snapshot.retention_days)
    /\ Val(snapshot.retention_days) # 0

retention_gate(snapshot) ==
    /\ IsSome(snapshot.retention_days)
    /\ Val(snapshot.retention_days) # 0
    /\ Val(snapshot.retention_days) >= 0

\* afs_snappy.validate_is_numeric: a string of digits
validate_is_numeric(value) == IsSome(value) /\ Val(value) >= 0

\* backupsnappy.__validate_allowed_adhoc_backup_retention_days
validate_allowed_adhoc_backup_retention_days(rdays) ==
    LET retenion_days_int == Val(rdays)
    IN  retenion_days_int \in allowed_adhoc_backup_retention_days_list

\* the calendar day of a timestamp
DayOf(t) == t \div TicksPerDay

(* ============================ the runs ================================ *)

\* no run has ended yet
NoRun == [due |-> {}, reached |-> {}, failed |-> {}]

Init ==
    /\ clock = Clock0
    /\ \/ /\ flow = "deletion"
          /\ afs_snapshots \in InitialBackends
          /\ softdelete = FALSE
       \/ /\ flow = "backup"
          /\ afs_snapshots = [v \in Volumes |-> << >>]
          /\ softdelete \in BOOLEAN
    /\ next_name = MaxSnaps + 1
    /\ created_log = {}
    /\ runs = 0
    /\ previous = NoRun
    /\ pc = "idle"
    /\ is_adhoc_backup = FALSE
    /\ retention_days = None
    /\ current_date_time = Clock0
    /\ afs_list = << >>
    /\ idx = 0
    /\ snapshot_list = << >>
    /\ sidx = 0
    /\ listed_totals = << >>
    /\ is_expired = FALSE
    /\ snapshots_created = 0
    /\ deleted_snapshots = 0
    /\ alerts = << >>
    /\ calls = << >>
    /\ summary = None
    /\ exit_code = None

\* history: the record of the run that has just ended, about the snapshots
\* it leaves in the backend. Due are those that pass the retention gate
\* and were expired at its 'now'. Reached are those of the volumes whose
\* listing succeeded: nothing ends the loop over snapshot_list early, so
\* each of them was evaluated.
RunRecord ==
    [due |-> UNION { { [vol |-> v, name |-> afs_snapshots[v][j].name] :
                         j \in { k \in 1..Len(afs_snapshots[v]) :
                                   /\ retention_gate(afs_snapshots[v][k])
                                   /\ has_snapshot_expired(current_date_time,
                                                           afs_snapshots[v][k]) } } :
                     v \in Volumes },
     reached |-> UNION { { [vol |-> v, name |-> afs_snapshots[v][j].name] :
                               j \in 1..Len(afs_snapshots[v]) } :
                           v \in { w \in Volumes :
                                     \E i \in 1..Len(calls) :
                                         /\ calls[i].op = "listSnapshots"
                                         /\ calls[i].vol = w /\ calls[i].ok } },
     failed |-> { [vol |-> calls[i].vol, name |-> calls[i].snap.name] :
                    i \in { j \in 1..Len(calls) :
                              calls[j].op = "deleteSnapshot" /\ ~ calls[j].ok } }]

\* a fresh process, some time after the previous one ended: module level
\* code and the first lines of main()
StartRun(adhoc, rdays, elapsed) ==
    /\ pc = "idle"
    /\ runs < MaxRuns
    /\ elapsed = 0 \/ runs > 0
    /\ clock + elapsed <= MaxClock
    /\ clock' = clock + elapsed
    /\ runs' = runs + 1
    /\ previous' = RunRecord
    /\ is_adhoc_backup' = adhoc
    /\ retention_days' = rdays
    /\ current_date_time' = clock'
    /\ afs_list' = << >>
    /\ idx' = 0
    /\ snapshot_list' = << >>
    /\ sidx' = 0
    /\ listed_totals' = << >>
    /\ is_expired' = FALSE
    /\ snapshots_created' = 0
    /\ deleted_snapshots' = 0
    /\ alerts' = << >>
    /\ calls' = << >>
    /\ summary' = None
    /\ exit_code' = None
    /\ pc' = IF flow = "backup" THEN "b_validate" ELSE "d_token"
    /\ UNCHANGED <<flow, afs_snapshots, softdelete, next_name, created_log>>

StartBackup ==
    /\ flow = "backup"
    /\ \E in \in RunInputs, elapsed \in 0..TicksPerDay :
        StartRun(in.adhoc, in.rdays, elapsed)

StartDeletion ==
    /\ flow = "deletion"
    /\ \E elapsed \in 0..TicksPerDay : StartRun(FALSE, None, elapsed)

\* the except clause of main(): one FAIL alert, then sys.exit(1)
RunFatalExitZero(call) ==
    /\ calls' = Append(calls, call)
    /\ alerts' = Append(alerts, Alert("FAIL", "main", NoVol, 0))
    /\ exit_code' = Some(0)
    /\ pc' = "idle"

RunFatal(call) ==
    /\ calls' = Append(calls, call)
    /\ alerts' = Append(alerts, Alert("FAIL", "main", NoVol, 0))
    /\ exit_code' = Some(1)
    /\ pc' = "idle"

\* sys.exit(0) on an empty volume list: SystemExit is not an Exception, so
\* main()'s except clause does not catch it
NoVolumesExitCaught ==
    /\ alerts' = Append(alerts, Alert("FAIL", "main", NoVol, 0))
    /\ exit_code' = Some(1)
    /\ pc' = "idle"

NoVolumesExit ==
    /\ alerts' = alerts
    /\ exit_code' = Some(0)
    /\ pc' = "idle"


(* ===================== deletionsnappy.py: main() ====================== *)

\* IdentityManager.get_managed_identity_token
D_GetToken ==
    /\ pc = "d_token"
    /\ \E ok \in BOOLEAN :
        IF ok
        THEN /\ calls' = Append(calls, Call("getToken", NoVol, NoSnap, TRUE))
             /\ pc' = "d_storage"
             /\ UNCHANGED <<alerts, exit_code>>
        ELSE RunFatal(Call("getToken", NoVol, NoSnap, FALSE))
    /\ UNCHANGED <<backend, inputs, loop, counters, summary>>

\* storage_manager.validate_storage
D_ValidateStorage ==
    /\ pc = "d_storage"
    /\ \E ok \in BOOLEAN :
        IF ok
        THEN /\ calls' = Append(calls, Call("validateAccount", NoVol, NoSnap, TRUE))
             /\ pc' = "d_list"
             /\ UNCHANGED <<alerts, exit_code>>
        ELSE RunFatal(Call("validateAccount", NoVol, NoSnap, FALSE))
    /\ UNCHANGED <<backend, inputs, loop, counters, summary>>

\* storage_manager.get_afs_list, and sys.exit(0) when it is empty; an
\* exception of the listing reaches main()'s except clause
D_GetAfsList ==
    /\ pc = "d_list"
    /\ \/ \E l \in Listings :
            /\ afs_list' = l
            /\ calls' = Append(calls, Call("listVolumes", NoVol, NoSnap, TRUE))
            /\ IF Len(l) < 1
               THEN NoVolumesExit /\ idx' = idx
               ELSE /\ exit_code' = exit_code
                    /\ alerts' = alerts
                    /\ pc' = "d_exists"
                    /\ idx' = 1
       \/ /\ RunFatal(Call("listVolumes", NoVol, NoSnap, FALSE))
          /\ UNCHANGED <<afs_list, idx>>
    /\ UNCHANGED <<backend, inputs, snapshot_list, sidx, listed_totals, is_expired,
                   counters, summary>>

\* afs_manager.validate_afs_exists, first statement of the loop body; it is
\* not inside any try of its own, so its exception reaches main()'s except
D_ValidateAfsExists ==
    /\ pc = "d_exists"
    /\ \E ok \in BOOLEAN :
        IF ok
        THEN /\ calls' = Append(calls, Call("validateExists", afs_list[idx], NoSnap, TRUE))
             /\ pc' = "d_snaps"
             /\ UNCHANGED <<alerts, exit_code>>
        ELSE RunFatal(Call("validateExists", afs_list[idx], NoSnap, FALSE))
    /\ UNCHANGED <<backend, inputs, loop, counters, summary>>

\* __delete_snapshots_in_afs up to the for loop: get_snapshots, the early
\* return on an empty listing, and the except clause when the call fails
D_GetSnapshots ==
    /\ pc = "d_snaps"
    /\ \E ok \in BOOLEAN :
        /\ calls' = Append(calls, Call("listSnapshots", afs_list[idx], NoSnap, ok))
        /\ IF ok
           THEN /\ snapshot_list' = afs_snapshots[afs_list[idx]]
                /\ listed_totals' = Append(listed_totals,
                       [vol |-> afs_list[idx],
                        total |-> Len(afs_snapshots[afs_list[idx]])])
                /\ alerts' = alerts
                /\ IF Len(afs_snapshots[afs_list[idx]]) < 1
                   THEN pc' = "d_success" /\ sidx' = sidx
                   ELSE pc' = "d_loop" /\ sidx' = 1
           ELSE /\ alerts' = Append(alerts,
                                Alert("FAIL", "delete_snapshots_in_afs", afs_list[idx], 0))
                /\ pc' = "d_success"
                /\ UNCHANGED <<snapshot_list, sidx, listed_totals>>
    /\ UNCHANGED <<backend, inputs, afs_list, idx, is_expired, counters, summary, exit_code>>

\* afs_manager.delete_snapshot on the backend
RemoveSnapshot(list, snapshot) ==
    SelectSeq(list, LAMBDA s : s.name # snapshot.name)

\* where the for loop over snapshot_list goes after one snapshot
D_NextSnapshotSkipsOne ==
    IF sidx + 1 < Len(snapshot_list)
    THEN pc' = "d_loop" /\ sidx' = sidx + 2
    ELSE pc' = "d_success" /\ sidx' = sidx

D_NextSnapshot ==
    IF sidx < Len(snapshot_list)
    THEN pc' = "d_loop" /\ sidx' = sidx + 1
    ELSE pc' = "d_success" /\ sidx' = sidx

\* __delete_snapshot: the except clause ends the function with False, the
\* caller's loop goes on
DeleteFailureRaises ==
    /\ pc' = "idle"
    /\ exit_code' = Some(1)
    /\ sidx' = sidx

DeleteFailureRetried ==
    /\ pc' = "d_loop"
    /\ sidx' = sidx
    /\ exit_code' = exit_code

DeleteFailureHandled ==
    /\ D_NextSnapshot
    /\ exit_code' = exit_code

\* __delete_snapshot: delete_snapshot and the counter, or the except clause
D_DeleteSnapshotCountsAttempts(vol, snapshot) ==
    \E ok \in BOOLEAN :
        /\ calls' = Append(calls, Call("deleteSnapshot", vol, snapshot, ok))
        /\ deleted_snapshots' = deleted_snapshots + 1
        /\ IF ok
           THEN /\ afs_snapshots' =
                      [afs_snapshots EXCEPT
                         ![vol] = RemoveSnapshot(afs_snapshots[vol], snapshot)]
                /\ alerts' = alerts
                /\ D_NextSnapshot
                /\ exit_code' = exit_code
           ELSE /\ alerts' = Append(alerts,
                          Alert("FAIL", "delete_snapshot", NoVol, snapshot.name))
                /\ UNCHANGED afs_snapshots
                /\ DeleteFailureHandled

D_DeleteSnapshot(vol, snapshot) ==
    \E ok \in BOOLEAN :
        /\ calls' = Append(calls, Call("deleteSnapshot", vol, snapshot, ok))
        /\ IF ok
           THEN /\ afs_snapshots' =
                      [afs_snapshots EXCEPT
                         ![vol] = RemoveSnapshot(afs_snapshots[vol], snapshot)]
                /\ deleted_snapshots' = deleted_snapshots + 1
                /\ alerts' = alerts
                /\ D_NextSnapshot
                /\ exit_code' = exit_code
           ELSE /\ alerts' = Append(alerts,
                          Alert("FAIL", "delete_snapshot", NoVol, snapshot.name))
                /\ UNCHANGED <<afs_snapshots, deleted_snapshots>>
                /\ DeleteFailureHandled

\* one iteration of the for loop of __delete_snapshots_in_afs, with the
\* call of __delete_snapshot it may make
D_Snapshot ==
    /\ pc = "d_loop"
    /\ LET snapshot == snapshot_list[sidx]
       IN  IF retention_gate(snapshot)
           THEN /\ is_expired' = has_snapshot_expired(current_date_time, snapshot)
                /\ IF has_snapshot_expired(current_date_time, snapshot)
                   THEN D_DeleteSnapshot(afs_list[idx], snapshot)
                   ELSE /\ D_NextSnapshot
                        /\ UNCHANGED <<afs_snapshots, deleted_snapshots, alerts,
                                       calls, exit_code>>
           ELSE /\ D_NextSnapshot
                /\ UNCHANGED <<afs_snapshots, deleted_snapshots, alerts, calls,
                               exit_code, is_expired>>
    /\ UNCHANGED <<clock, softdelete, next_name, created_log, runs, previous, inputs,
                   afs_list, idx, snapshot_list, listed_totals, snapshots_created,
                   summary>>

\* the SUCCESS alert that ends the loop body of main(), and the loop's step
D_SendSuccessIfSnapshots ==
    /\ pc = "d_success"
    /\ alerts' = IF Len(afs_snapshots[afs_list[idx]]) < 1
                 THEN alerts
                 ELSE Append(alerts, Alert("SUCCESS", "main", afs_list[idx], 0))
    /\ IF idx < Len(afs_list)
       THEN pc' = "d_exists" /\ idx' = idx + 1
       ELSE pc' = "d_summary" /\ idx' = idx
    /\ UNCHANGED <<backend, inputs, afs_list, snapshot_list, sidx, listed_totals, is_expired,
                   counters, calls, summary, exit_code>>

D_SendSuccessUnlessFailed ==
    /\ pc = "d_success"
    /\ alerts' = IF \E a \in 1..Len(alerts) :
                        alerts[a].type = "FAIL" /\ alerts[a].vol = afs_list[idx]
                 THEN alerts
                 ELSE Append(alerts, Alert("SUCCESS", "main", afs_list[idx], 0))
    /\ IF idx < Len(afs_list)
       THEN pc' = "d_exists" /\ idx' = idx + 1
       ELSE pc' = "d_summary" /\ idx' = idx
    /\ UNCHANGED <<backend, inputs, afs_list, snapshot_list, sidx, listed_totals, is_expired,
                   counters, calls, summary, exit_code>>

D_SendSuccess ==
    /\ pc = "d_success"
    /\ alerts' = Append(alerts, Alert("SUCCESS", "main", afs_list[idx], 0))
    /\ IF idx < Len(afs_list)
       THEN pc' = "d_exists" /\ idx' = idx + 1
       ELSE pc' = "d_summary" /\ idx' = idx
    /\ UNCHANGED <<backend, inputs, afs_list, snapshot_list, sidx, listed_totals, is_expired,
                   counters, calls, summary, exit_code>>

\* the closing log line with the global counter; main() returns
D_Summary ==
    /\ pc = "d_summary"
    /\ summary' = Some(deleted_snapshots)
    /\ exit_code' = Some(0)
    /\ pc' = "idle"
    /\ UNCHANGED <<backend, inputs, loop, counters, alerts, calls>>

Deletion ==
    \/ D_GetToken
    \/ D_ValidateStorage
    \/ D_GetAfsList
    \/ D_ValidateAfsExists
    \/ D_GetSnapshots
    \/ D_Snapshot
    \/ D_SendSuccess
    \/ D_Summary


(* ====================== backupsnappy.py: main() ======================= *)

\* validate_is_numeric and, for an ad-hoc run, the allow-list
B_ValidateInputs ==
    /\ pc = "b_validate"
    /\ IF ~ validate_is_numeric(retention_days)
       THEN RunFatal(Call("validateNumeric", NoVol, NoSnap, FALSE))
       ELSE IF is_adhoc_backup
               /\ ~ validate_allowed_adhoc_backup_retention_days(retention_days)
            THEN RunFatal(Call("validateAdhocAllowed", NoVol, NoSnap, FALSE))
            ELSE /\ pc' = "b_token"
                 /\ UNCHANGED <<calls, alerts, exit_code>>
    /\ UNCHANGED <<backend, inputs, loop, counters, summary>>

\* IdentityManager.get_managed_identity_token
B_GetTokenThenGuard ==
    /\ pc = "b_token"
    /\ \E ok \in BOOLEAN :
        IF ok
        THEN /\ calls' = Append(calls, Call("getToken", NoVol, NoSnap, TRUE))
             /\ pc' = "b_softdelete"
             /\ UNCHANGED <<alerts, exit_code>>
        ELSE RunFatal(Call("getToken", NoVol, NoSnap, FALSE))
    /\ UNCHANGED <<backend, inputs, loop, counters, summary>>

B_GetToken ==
    /\ pc = "b_token"
    /\ \E ok \in BOOLEAN :
        IF ok
        THEN /\ calls' = Append(calls, Call("getToken", NoVol, NoSnap, TRUE))
             /\ pc' = "b_storage"
             /\ UNCHANGED <<alerts, exit_code>>
        ELSE RunFatal(Call("getToken", NoVol, NoSnap, FALSE))
    /\ UNCHANGED <<backend, inputs, loop, counters, summary>>

\* storage_manager.validate_storage
B_ValidateStorage ==
    /\ pc = "b_storage"
    /\ \E ok \in BOOLEAN :
        IF ok
        THEN /\ calls' = Append(calls, Call("validateAccount", NoVol, NoSnap, TRUE))
             /\ pc' = "b_softdelete"
             /\ UNCHANGED <<alerts, exit_code>>
        ELSE RunFatal(Call("validateAccount", NoVol, NoSnap, FALSE))
    /\ UNCHANGED <<backend, inputs, loop, counters, summary>>

\* __enable_softdelete_in_file_share, the query: already enabled returns,
\* an exception goes to the function's except clause
B_IsSoftDeleteEnabledNoReturn ==
    /\ pc = "b_softdelete"
    /\ \E ok \in BOOLEAN :
        /\ calls' = Append(calls, Call("isSoftDeleteEnabled", NoVol, NoSnap, ok))
        /\ IF ok
           THEN /\ pc' = "b_enable"
                /\ alerts' = alerts
           ELSE /\ pc' = "b_list"
                /\ alerts' = Append(alerts, Alert("FAIL", "enable_softdelete", NoVol, 0))
    /\ UNCHANGED <<backend, inputs, loop, counters, summary, exit_code>>

B_IsSoftDeleteEnabled ==
    /\ pc = "b_softdelete"
    /\ \E ok \in BOOLEAN :
        /\ calls' = Append(calls, Call("isSoftDeleteEnabled", NoVol, NoSnap, ok))
        /\ IF ok
           THEN /\ pc' = IF softdelete THEN "b_list" ELSE "b_enable"
                /\ alerts' = alerts
           ELSE /\ pc' = "b_list"
                /\ alerts' = Append(alerts, Alert("FAIL", "enable_softdelete", NoVol, 0))
    /\ UNCHANGED <<backend, inputs, loop, counters, summary, exit_code>>

\* __enable_softdelete_in_file_share, enable_file_share_softdelete
B_EnableSoftDelete ==
    /\ pc = "b_enable"
    /\ \E ok \in BOOLEAN :
        /\ calls' = Append(calls, Call("enableSoftDelete", NoVol, NoSnap, ok))
        /\ IF ok
           THEN /\ softdelete' = TRUE
                /\ alerts' = alerts
           ELSE /\ softdelete' = softdelete
                /\ alerts' = Append(alerts, Alert("FAIL", "enable_softdelete", NoVol, 0))
        /\ pc' = "b_list"
    /\ UNCHANGED <<clock, afs_snapshots, next_name, created_log, runs, previous,
                   inputs, loop, counters, summary, exit_code>>

\* storage_manager.get_afs_list, and sys.exit(0) when it is empty; an
\* exception of the listing reaches main()'s except clause
B_GetAfsList ==
    /\ pc = "b_list"
    /\ \/ \E l \in Listings :
            /\ afs_list' = l
            /\ calls' = Append(calls, Call("listVolumes", NoVol, NoSnap, TRUE))
            /\ IF Len(l) < 1
               THEN NoVolumesExit /\ idx' = idx
               ELSE /\ exit_code' = exit_code
                    /\ alerts' = alerts
                    /\ pc' = "b_exists"
                    /\ idx' = 1
       \/ /\ RunFatal(Call("listVolumes", NoVol, NoSnap, FALSE))
          /\ UNCHANGED <<afs_list, idx>>
    /\ UNCHANGED <<backend, inputs, snapshot_list, sidx, listed_totals, is_expired,
                   counters, summary>>

\* afs_manager.validate_afs_exists, first statement of the loop body; it is
\* not inside any try of its own, so its exception reaches main()'s except
B_ValidateAfsExists ==
    /\ pc = "b_exists"
    /\ \E ok \in BOOLEAN :
        IF ok
        THEN /\ calls' = Append(calls, Call("validateExists", afs_list[idx], NoSnap, TRUE))
             /\ pc' = "b_today"
             /\ UNCHANGED <<alerts, exit_code>>
        ELSE RunFatal(Call("validateExists", afs_list[idx], NoSnap, FALSE))
    /\ UNCHANGED <<backend, inputs, loop, counters, summary>>

\* the for loop of main() moves to the next volume, or ends
B_NextVolume ==
    IF idx < Len(afs_list)
    THEN pc' = "b_exists" /\ idx' = idx + 1
    ELSE pc' = "b_summary" /\ idx' = idx

\* afs_manager.is_snapshot_already_created_today, answered from the
\* snapshots the backend holds: an automated snapshot of today counts;
\* whether an ad-hoc snapshot of today counts is the library's choice
CreatedTodayAnswers(vol) ==
    LET today == { i \in 1..Len(afs_snapshots[vol]) :
                     DayOf(afs_snapshots[vol][i].created_at) = DayOf(clock) }
    IN  IF \E i \in today : ~ afs_snapshots[vol][i].adhoc THEN {TRUE}
        ELSE IF today # {} THEN BOOLEAN
        ELSE {FALSE}

\* the mode switch of the loop body: an ad-hoc run does not ask, an
\* automated run asks and skips the volume (continue) on yes
AdhocAlsoAsks == FALSE

SkipsCheckCreatedToday == is_adhoc_backup

\* "continue" when today's snapshot exists
NoSkipWhenCreatedToday(answer) == pc' = "b_limit" /\ idx' = idx

SkipWhenCreatedToday(answer) ==
    IF answer
    THEN B_NextVolume
    ELSE pc' = "b_limit" /\ idx' = idx

\* the call is made in the loop body with no try of its own, so its
\* exception reaches main()'s except clause
B_CheckCreatedToday ==
    /\ pc = "b_today"
    /\ IF SkipsCheckCreatedToday
       THEN /\ pc' = "b_limit"
            /\ UNCHANGED <<calls, idx, alerts, exit_code>>
       ELSE \/ \E answer \in CreatedTodayAnswers(afs_list[idx]) :
                /\ calls' = Append(calls,
                              Answered("wasSnapshotCreatedToday", afs_list[idx], answer))
                /\ SkipWhenCreatedToday(answer)
                /\ UNCHANGED <<alerts, exit_code>>
            \/ /\ RunFatal(Call("wasSnapshotCreatedToday", afs_list[idx], NoSnap, FALSE))
               /\ idx' = idx
    /\ UNCHANGED <<backend, inputs, afs_list, snapshot_list, sidx, listed_totals, is_expired,
                   counters, summary>>

\* afs_manager.validate_afs_snapshots_storage_limit: fails at or over the
\* limit, and like every backend call it can fail on its own
LimitAnswers(vol, limit) ==
    IF Len(afs_snapshots[vol]) >= limit THEN {FALSE} ELSE BOOLEAN

\* the except clause of __create_afs_snapshot: one FAIL alert, and the
\* function returns to the loop body of main()
CreateFailureReRaised(vol) ==
    /\ alerts' = Append(Append(alerts, Alert("FAIL", "create_afs_snapshot", vol, 0)),
                        Alert("FAIL", "main", NoVol, 0))
    /\ exit_code' = Some(1)
    /\ pc' = "idle"

CreateFailure(vol) ==
    /\ alerts' = Append(alerts, Alert("FAIL", "create_afs_snapshot", vol, 0))
    /\ exit_code' = exit_code
    /\ pc' = "b_success"

\* __create_afs_snapshot, the limit check; its failure is caught by the
\* function's except clause
B_ValidateLimitGoesOn ==
    /\ pc = "b_limit"
    /\ \E ok \in LimitAnswers(afs_list[idx], AFS_TOTAL_SNAPSHOTS_LIMIT) :
        /\ calls' = Append(calls, Call("validateSnapshotCountUnder", afs_list[idx], NoSnap, ok))
        /\ pc' = "b_create"
        /\ alerts' = IF ok THEN alerts
                     ELSE Append(alerts, Alert("FAIL", "create_afs_snapshot", afs_list[idx], 0))
        /\ exit_code' = exit_code
    /\ UNCHANGED <<backend, inputs, loop, counters, summary>>

B_ValidateLimit ==
    /\ pc = "b_limit"
    /\ \E ok \in LimitAnswers(afs_list[idx], AFS_TOTAL_SNAPSHOTS_LIMIT) :
        /\ calls' = Append(calls, Call("validateSnapshotCountUnder", afs_list[idx], NoSnap, ok))
        /\ IF ok
           THEN /\ pc' = "b_create"
                /\ UNCHANGED <<alerts, exit_code>>
           ELSE CreateFailure(afs_list[idx])
    /\ UNCHANGED <<backend, inputs, loop, counters, summary>>

\* afs_manager.create_snapshot on the backend
NewSnapshot ==
    [name |-> next_name,
     created_at |-> clock,
     retention_days |-> Some(Val(retention_days)),
     adhoc |-> is_adhoc_backup]

\* __create_afs_snapshot, create_snapshot and the counter
B_CreateSnapshot ==
    /\ pc = "b_create"
    /\ LET vol == afs_list[idx]
       IN  \E ok \in BOOLEAN :
            /\ calls' = Append(calls, Call("createSnapshot", vol, NewSnapshot, ok))
            /\ IF ok
               THEN /\ afs_snapshots' =
                          [afs_snapshots EXCEPT ![vol] = Append(@, NewSnapshot)]
                    /\ next_name' = next_name + 1
                    /\ created_log' = created_log \cup
                          { [vol |-> vol, day |-> DayOf(clock),
                             adhoc |-> is_adhoc_backup, run |-> runs] }
                    /\ snapshots_created' = snapshots_created + 1
                    /\ UNCHANGED <<alerts, exit_code>>
                    /\ pc' = "b_success"
               ELSE /\ CreateFailure(vol)
                    /\ UNCHANGED <<afs_snapshots, next_name, created_log,
                                   snapshots_created>>
    /\ UNCHANGED <<clock, softdelete, runs, previous, inputs, loop,
                   deleted_snapshots, summary>>

\* the SUCCESS alert that ends the loop body of main(), and the loop's step
B_SendSuccess ==
    /\ pc = "b_success"
    /\ alerts' = Append(alerts, Alert("SUCCESS", "main", afs_list[idx], 0))
    /\ B_NextVolume
    /\ UNCHANGED <<backend, inputs, afs_list, snapshot_list, sidx, listed_totals, is_expired,
                   counters, calls, summary, exit_code>>

\* the closing log line with the global counter; main() returns
B_Summary ==
    /\ pc = "b_summary"
    /\ summary' = Some(snapshots_created)
    /\ exit_code' = Some(0)
    /\ pc' = "idle"
    /\ UNCHANGED <<backend, inputs, loop, counters, alerts, calls>>

Backup ==
    \/ B_ValidateInputs
    \/ B_GetToken
    \/ B_ValidateStorage
    \/ B_IsSoftDeleteEnabled
    \/ B_EnableSoftDelete
    \/ B_GetAfsList
    \/ B_ValidateAfsExists
    \/ B_CheckCreatedToday
    \/ B_ValidateLimit
    \/ B_CreateSnapshot
    \/ B_SendSuccess
    \/ B_Summary

Next ==
    \/ StartBackup
    \/ StartDeletion
    \/ Backup
    \/ Deletion

Spec == Init /\ [][Next]_vars


(* ============ the expiration rule as a function of its inputs ========= *)

\* largest retention_days given to the rule
MaxRetention == 2

\* timestamps given to the rule
ExpTimes == 0 .. ((MaxRetention + 2) * TicksPerDay)

InitExpired ==
    /\ flow = "deletion"
    /\ pc = "e_input"
    /\ current_date_time \in ExpTimes
    /\ snapshot_list \in
         { << [name |-> 1, created_at |-> c, retention_days |-> Some(r),
               adhoc |-> FALSE] >> : c \in ExpTimes, r \in 0..MaxRetention }
    /\ clock = current_date_time
    /\ afs_snapshots = [v \in Volumes |-> << >>]
    /\ softdelete = FALSE
    /\ next_name = 2
    /\ created_log = {}
    /\ runs = 0
    /\ previous = NoRun
    /\ is_adhoc_backup = FALSE
    /\ retention_days = None
    /\ afs_list = << >>
    /\ idx = 0
    /\ sidx = 1
    /\ listed_totals = << >>
    /\ is_expired = FALSE
    /\ snapshots_created = 0
    /\ deleted_snapshots = 0
    /\ alerts = << >>
    /\ calls = << >>
    /\ summary = None
    /\ exit_code = None

\* is_expired = __has_snapshot_expired(current_date_time, snapshot)
EvalExpired ==
    /\ pc = "e_input"
    /\ is_expired' = has_snapshot_expired(current_date_time, snapshot_list[sidx])
    /\ pc' = "e_done"
    /\ UNCHANGED <<backend, inputs, afs_list, idx, snapshot_list, sidx,
                   listed_totals, counters, alerts, calls, summary, exit_code>>

SpecExpired == InitExpired /\ [][EvalExpired]_vars

(* ============ input validation as a function of its inputs =========== *)

\* largest RetentionDays number given to the validation
MaxRetentionInput == 1830

InitValidate ==
    /\ flow = "backup"
    /\ pc = "b_validate"
    /\ is_adhoc_backup \in BOOLEAN
    /\ retention_days \in {None} \cup { Some(n) : n \in 0..MaxRetentionInput }
    /\ clock = Clock0
    /\ current_date_time = Clock0
    /\ afs_snapshots = [v \in Volumes |-> << >>]
    /\ softdelete = FALSE
    /\ next_name = 1
    /\ created_log = {}
    /\ runs = 1
    /\ previous = NoRun
    /\ afs_list = << >>
    /\ idx = 0
    /\ snapshot_list = << >>
    /\ sidx = 0
    /\ listed_totals = << >>
    /\ is_expired = FALSE
    /\ snapshots_created = 0
    /\ deleted_snapshots = 0
    /\ alerts = << >>
    /\ calls = << >>
    /\ summary = None
    /\ exit_code = None

SpecValidate == InitValidate /\ [][B_ValidateInputs]_vars

(* ============================= properties ============================= *)

CallIdx == 1 .. Len(calls)
AlertIdx == 1 .. Len(alerts)
Finished == pc = "idle" /\ runs > 0

\* calls whose failure main() does not catch before its own except clause
RunFatalOps ==
    {"validateNumeric", "validateAdhocAllowed", "getToken", "validateAccount",
     "listVolumes", "validateExists", "wasSnapshotCreatedToday"}
MutatingOps == {"enableSoftDelete", "createSnapshot", "deleteSnapshot"}

Requested(op, vol) == \E i \in CallIdx : calls[i].op = op /\ calls[i].vol = vol
Succeeded(op, vol) ==
    \E i \in CallIdx : calls[i].op = op /\ calls[i].vol = vol /\ calls[i].ok
\* position of a listed volume in afs_list
PosOf(vol) == CHOOSE k \in 1..Len(afs_list) : afs_list[k] = vol
\* the run ended in main()'s except clause, and which call put it there
FatalCall == calls[Len(calls)]
EndedFatal == exit_code = Some(1)

\* the expiration rule, stated on timestamps: the snapshot has lived for
\* at least retention_days + 1 whole days
LivedPastRetention(now, snapshot) ==
    now - snapshot.created_at >= (Val(snapshot.retention_days) + 1) * TicksPerDay
Eligible(snapshot) ==
    IsSome(snapshot.retention_days) /\ Val(snapshot.retention_days) >= 0

\* C1: every deleteSnapshot request of a deletion run is for a snapshot that
\* has a retention of 0 or more days and has lived more whole days than
\* that; snapshots without retention, with a negative one, or still inside
\* their retention are never requested.
C1_OnlyExpiredDeleted ==
    \A i \in CallIdx :
        calls[i].op = "deleteSnapshot" =>
            /\ Eligible(calls[i].snap)
            /\ LivedPastRetention(current_date_time, calls[i].snap)

\* a finished deletion run that deleted a snapshot of a volume and left
\* another snapshot of it that is not to be managed or not yet expired
C1_Witness ==
    /\ Finished /\ flow = "deletion" /\ exit_code = Some(0)
    /\ \E i \in CallIdx :
        /\ calls[i].op = "deleteSnapshot" /\ calls[i].ok
        /\ \E j \in 1..Len(afs_snapshots[calls[i].vol]) :
            LET s == afs_snapshots[calls[i].vol][j]
            IN  ~ Eligible(s) \/ ~ LivedPastRetention(current_date_time, s)

\* C2: a failed validateExists ends only that volume's step: the run does
\* not exit 1, and the volumes listed after it are still checked.
C2_VolumeNotFoundIsolated ==
    \A i \in CallIdx :
        (calls[i].op = "validateExists" /\ ~ calls[i].ok) =>
            /\ exit_code # Some(1)
            /\ (Finished /\ PosOf(calls[i].vol) < Len(afs_list)) =>
                   Requested("validateExists", afs_list[PosOf(calls[i].vol) + 1])

\* alerts that name a volume
AlertsFor(vol) == { a \in AlertIdx : alerts[a].vol = vol }

\* C3: a backup run sends exactly one alert for each volume it attempted
\* creation on: SUCCESS when createSnapshot succeeded, FAIL when the limit
\* check or createSnapshot failed.
C3_OneAlertPerVolume ==
    (flow = "backup" /\ Finished /\ exit_code = Some(0)) =>
        \A k \in 1..Len(afs_list) :
            Requested("validateSnapshotCountUnder", afs_list[k]) =>
                /\ Cardinality(AlertsFor(afs_list[k])) = 1
                /\ \A a \in AlertsFor(afs_list[k]) :
                     alerts[a].type = "SUCCESS"
                        <=> Succeeded("createSnapshot", afs_list[k])

CreateFailed(i) ==
    /\ calls[i].op \in {"validateSnapshotCountUnder", "createSnapshot"}
    /\ ~ calls[i].ok
CreateSuccesses == { i \in CallIdx : calls[i].op = "createSnapshot" /\ calls[i].ok }

\* C4: a failed limit check or createSnapshot is not re-raised: the run never
\* exits 1 on it (only a run-fatal call does that, and it is then the last
\* call), the loop goes on to the next listed volume, and a run that
\* reaches its end exits 0 and reports as snapshots_created the number of
\* successful createSnapshot calls.
C4_CreateFailureNotFatal ==
    flow = "backup" =>
        /\ \A i \in CallIdx :
             CreateFailed(i) =>
                /\ EndedFatal => (i < Len(calls) /\ FatalCall.op \in RunFatalOps
                                    /\ ~ FatalCall.ok)
                /\ (Finished /\ PosOf(calls[i].vol) < Len(afs_list))
                      => Requested("validateExists", afs_list[PosOf(calls[i].vol) + 1])
                /\ (Finished /\ ~ EndedFatal) =>
                      /\ exit_code = Some(0)
                      /\ summary = Some(Cardinality(CreateSuccesses))
                      /\ \A k \in 1..Len(afs_list) :
                            Requested("validateExists", afs_list[k])
        /\ snapshots_created = Cardinality(CreateSuccesses)

\* a finished run of two volumes: creation failed on the first, succeeded on
\* the second, the run reports 1 and exits 0
C4_Witness ==
    /\ flow = "backup" /\ Finished /\ exit_code = Some(0) /\ summary = Some(1)
    /\ Len(afs_list) = 2
    /\ \E i \in CallIdx : CreateFailed(i) /\ calls[i].vol = afs_list[1]
    /\ Succeeded("createSnapshot", afs_list[2])


\* the deletion run is at the end of a volume whose snapshots it listed
ListedVolumeDone ==
    /\ flow = "deletion" /\ pc = "d_success"
    /\ \E i \in CallIdx :
        /\ calls[i].op = "listSnapshots" /\ calls[i].vol = afs_list[idx] /\ calls[i].ok
DeleteRequestedFor(snapshot) ==
    \E i \in CallIdx : calls[i].op = "deleteSnapshot" /\ calls[i].snap = snapshot

\* C5: every listed snapshot with a retention of 0 or more days, 0 included,
\* that has lived more whole days than its retention is requested for
\* deletion in that run.
C5_EveryExpiredRequested ==
    ListedVolumeDone =>
        \A k \in 1..Len(snapshot_list) :
            (Eligible(snapshot_list[k])
               /\ LivedPastRetention(current_date_time, snapshot_list[k]))
            => DeleteRequestedFor(snapshot_list[k])

\* C6: for a snapshot with a retention of 0 or more days the rule answers
\* "expired" exactly when floor(days between created_at and now) exceeds
\* retention_days, that is when the snapshot has lived retention_days + 1
\* whole days: not expired at exactly retention_days, expired at
\* retention_days + 1.
C6_ExpiredIffPastRetention ==
    pc = "e_done" =>
        LET snapshot == snapshot_list[sidx]
            now == current_date_time
            r == Val(snapshot.retention_days)
        IN  /\ is_expired <=> LivedPastRetention(now, snapshot)
            /\ (now - snapshot.created_at = r * TicksPerDay) => ~ is_expired
            /\ (now - snapshot.created_at = (r + 1) * TicksPerDay) => is_expired

\* the rule was applied to a snapshot of retention 1 one tick short of two
\* days old, and answered "not expired"
C6_Witness ==
    /\ pc = "e_done"
    /\ Val(snapshot_list[sidx].retention_days) = 1
    /\ current_date_time - snapshot_list[sidx].created_at = 2 * TicksPerDay - 1
    /\ ~ is_expired

\* index of the first call with this name on this volume, 0 if none
FirstCall(op, vol) ==
    IF Requested(op, vol)
    THEN CHOOSE i \in CallIdx :
            /\ calls[i].op = op /\ calls[i].vol = vol
            /\ \A j \in 1..(i - 1) : ~ (calls[j].op = op /\ calls[j].vol = vol)
    ELSE 0

\* C7: an automated backup run that is told today's snapshot exists makes no
\* limit check and no createSnapshot request for that volume; an ad-hoc run
\* never asks, and goes from the existence check straight to the creation
\* attempt for every volume that exists.
C7_SkipOnlyWhenAutomated ==
    flow = "backup" =>
        /\ ~ is_adhoc_backup =>
             \A i \in CallIdx :
                (calls[i].op = "wasSnapshotCreatedToday" /\ calls[i].ok
                 /\ calls[i].answer) =>
                    /\ ~ Requested("validateSnapshotCountUnder", calls[i].vol)
                    /\ ~ Requested("createSnapshot", calls[i].vol)
        /\ is_adhoc_backup =>
             /\ \A i \in CallIdx : calls[i].op # "wasSnapshotCreatedToday"
             /\ \A i \in CallIdx :
                  (calls[i].op = "validateExists" /\ calls[i].ok) =>
                     \/ i = Len(calls) /\ pc \in {"b_today", "b_limit"}
                     \/ /\ i < Len(calls)
                        /\ calls[i + 1].op = "validateSnapshotCountUnder"
                        /\ calls[i + 1].vol = calls[i].vol

SnapshotsOfToday(vol) ==
    { j \in 1..Len(afs_snapshots[vol]) :
        DayOf(afs_snapshots[vol][j].created_at) = DayOf(clock) }

\* an ad-hoc run requested createSnapshot for a volume that an earlier run
\* of the same day had already snapshotted
C7_Witness ==
    /\ flow = "backup" /\ is_adhoc_backup
    /\ \E i \in CallIdx :
        /\ calls[i].op = "createSnapshot" /\ calls[i].ok
        /\ \E c \in created_log :
            c.vol = calls[i].vol /\ c.day = DayOf(clock) /\ c.run < runs

\* C8: over any sequence of automated backup runs, a volume gets at most
\* one automated snapshot per calendar day: once a run has created it, no
\* later automated run of that day requests createSnapshot for the volume.
C8_OneAutomatedSnapshotPerDay ==
    /\ \A a, b \in created_log :
         (~ a.adhoc /\ ~ b.adhoc /\ a.vol = b.vol /\ a.day = b.day) => a.run = b.run
    /\ (flow = "backup" /\ ~ is_adhoc_backup) =>
         \A i \in CallIdx :
            calls[i].op = "createSnapshot" =>
               ~ \E c \in created_log :
                    /\ ~ c.adhoc /\ c.vol = calls[i].vol
                    /\ c.day = DayOf(clock) /\ c.run < runs

\* a later automated run of the same day asked about a volume an earlier
\* automated run had snapshotted, and was told yes
C8_Witness ==
    /\ flow = "backup" /\ ~ is_adhoc_backup /\ Finished /\ exit_code = Some(0)
    /\ \E i \in CallIdx :
        /\ calls[i].op = "wasSnapshotCreatedToday" /\ calls[i].ok /\ calls[i].answer
        /\ \E c \in created_log :
            ~ c.adhoc /\ c.vol = calls[i].vol /\ c.day = DayOf(clock) /\ c.run < runs

VolumeOps ==
    {"listVolumes", "validateExists", "wasSnapshotCreatedToday",
     "validateSnapshotCountUnder", "listSnapshots"}

\* C9: when validateAccount fails, in either runbook, no volume is listed
\* or processed, no mutating call is made, the run sends exactly one alert,
\* a FAIL, and exits 1.
C9_AccountValidationFatal ==
    \A i \in CallIdx :
        (calls[i].op = "validateAccount" /\ ~ calls[i].ok) =>
            /\ i = Len(calls)
            /\ \A j \in CallIdx : calls[j].op \notin (VolumeOps \cup MutatingOps)
            /\ afs_list = << >>
            /\ Len(alerts) = 1
            /\ alerts[1].type = "FAIL"
            /\ exit_code = Some(1)
            /\ Finished

\* validateAccount failed in a backup run on an account without soft delete
C9_Witness ==
    /\ flow = "backup" /\ ~ softdelete
    /\ \E i \in CallIdx : calls[i].op = "validateAccount" /\ ~ calls[i].ok

DeleteFailed(i) == calls[i].op = "deleteSnapshot" /\ ~ calls[i].ok
FailAlertsForSnapshot(name) ==
    { a \in AlertIdx : alerts[a].type = "FAIL" /\ alerts[a].snap = name }

\* C10: a failed deleteSnapshot stops nothing: one FAIL alert is sent for
\* that snapshot, the run never exits 1 on it (only a run-fatal call does
\* that), the other snapshots of the volume are still evaluated and the
\* expired ones requested, the next listed volume is still checked, and a
\* run that reaches its end exits 0.
C10_DeleteFailureIsolated ==
    flow = "deletion" =>
        /\ \A i \in CallIdx :
             DeleteFailed(i) =>
                /\ Cardinality(FailAlertsForSnapshot(calls[i].snap.name)) = 1
                /\ EndedFatal => (i < Len(calls) /\ FatalCall.op \in RunFatalOps
                                    /\ ~ FatalCall.ok)
                /\ (Finished /\ PosOf(calls[i].vol) < Len(afs_list))
                      => Requested("validateExists", afs_list[PosOf(calls[i].vol) + 1])
                /\ (Finished /\ ~ EndedFatal) =>
                      /\ exit_code = Some(0)
                      /\ summary = Some(deleted_snapshots)
                      /\ \A k \in 1..Len(afs_list) :
                            Requested("validateExists", afs_list[k])
        /\ ListedVolumeDone =>
             \A k \in 1..Len(snapshot_list) :
                (retention_gate(snapshot_list[k])
                   /\ LivedPastRetention(current_date_time, snapshot_list[k]))
                => DeleteRequestedFor(snapshot_list[k])

\* a finished run in which the first expired snapshot of a volume could not
\* be deleted, a later one of the same volume was, and the next volume was
\* processed
C10_Witness ==
    /\ flow = "deletion" /\ Finished /\ exit_code = Some(0)
    /\ \E i, j \in CallIdx :
        /\ i < j
        /\ DeleteFailed(i)
        /\ calls[j].op = "deleteSnapshot" /\ calls[j].ok /\ calls[j].vol = calls[i].vol
        /\ PosOf(calls[i].vol) < Len(afs_list)
        /\ Succeeded("listSnapshots", afs_list[PosOf(calls[i].vol) + 1])


\* a deletion run started right after another one, at the same clock value
SecondRunSameNow == flow = "deletion" /\ runs >= 2 /\ clock = Clock0

\* C11 as stated: a deletion run that follows another one at the same 'now'
\* deletes nothing.
C11_SecondRunDeletesNothing ==
    SecondRunSameNow => deleted_snapshots = 0

\* what a snapshot of this run is, seen from the run before it: it was not
\* due for deletion then and is now
NewlyExpired(vol, snapshot) ==
    /\ retention_gate(snapshot)
    /\ has_snapshot_expired(current_date_time, snapshot)
    /\ [vol |-> vol, name |-> snapshot.name] \notin previous.due
FailedBefore(vol, snapshot) == [vol |-> vol, name |-> snapshot.name] \in previous.failed
ReachedBefore(vol, snapshot) == [vol |-> vol, name |-> snapshot.name] \in previous.reached
DeleteCalls == { i \in CallIdx : calls[i].op = "deleteSnapshot" }
\* the snapshots the backend held when this run started are those it still
\* holds and those this run was asked to delete: none of them expired
\* between the two runs, and the run before reached every one
NothingNewlyExpired ==
    /\ \A v \in Volumes : \A j \in 1..Len(afs_snapshots[v]) :
          ~ NewlyExpired(v, afs_snapshots[v][j])
    /\ \A i \in DeleteCalls : ~ NewlyExpired(calls[i].vol, calls[i].snap)
AllReachedBefore ==
    /\ \A v \in Volumes : \A j \in 1..Len(afs_snapshots[v]) :
          ReachedBefore(v, afs_snapshots[v][j])
    /\ \A i \in DeleteCalls : ReachedBefore(calls[i].vol, calls[i].snap)

\* C11, amended: every deleteSnapshot a deletion run requests after another
\* deletion run is for a snapshot that newly expired between the two 'now',
\* or whose deleteSnapshot failed in the run before, or that the run before
\* did not reach (its volume's snapshots were not listed); so the run
\* requests no deleteSnapshot and its snapshots_deleted is 0 when nothing
\* newly expired, no deleteSnapshot of the run before failed and the run
\* before reached every snapshot.
C11_SecondRunDeletesLeftovers ==
    (flow = "deletion" /\ runs >= 2) =>
        /\ \A i \in DeleteCalls :
             \/ NewlyExpired(calls[i].vol, calls[i].snap)
             \/ FailedBefore(calls[i].vol, calls[i].snap)
             \/ ~ ReachedBefore(calls[i].vol, calls[i].snap)
        /\ (previous.failed = {} /\ AllReachedBefore /\ NothingNewlyExpired)
               => (DeleteCalls = {} /\ deleted_snapshots = 0)

\* names of the snapshots the backend holds
NamesHeld ==
    UNION { { afs_snapshots[v][j].name : j \in 1..Len(afs_snapshots[v]) } : v \in Volumes }

\* the second run, at the same 'now', has finished: the first run had
\* deleted one snapshot and failed on another, and the second run
\* requested and deleted only the one the first had failed on
C11_Witness ==
    /\ SecondRunSameNow /\ Finished /\ exit_code = Some(0)
    /\ Cardinality(previous.failed) = 1
    /\ \E m \in 1..(next_name - 1) :
          m \notin NamesHeld /\ \A f \in previous.failed : f.name # m
    /\ Cardinality(DeleteCalls) = 1
    /\ \A i \in DeleteCalls :
         /\ calls[i].ok
         /\ FailedBefore(calls[i].vol, calls[i].snap)
         /\ ReachedBefore(calls[i].vol, calls[i].snap)
    /\ deleted_snapshots = 1


SuccessAlertsFor(vol) ==
    { a \in AlertIdx : alerts[a].type = "SUCCESS" /\ alerts[a].vol = vol }
FailAlertsFor(vol) ==
    { a \in AlertIdx : alerts[a].type = "FAIL" /\ alerts[a].vol = vol }

\* C12: a volume whose snapshot listing is empty gets no deleteSnapshot
\* request and no FAIL alert, and exactly one SUCCESS alert (sent by the
\* step that follows the listing).
C12_EmptyVolumeOneSuccess ==
    flow = "deletion" =>
        \A k \in 1..Len(listed_totals) :
            listed_totals[k].total < 1 =>
                LET v == listed_totals[k].vol
                IN  /\ ~ Requested("deleteSnapshot", v)
                    /\ FailAlertsFor(v) = {}
                    /\ Cardinality(SuccessAlertsFor(v)) =
                          IF pc = "d_success" /\ afs_list[idx] = v THEN 0 ELSE 1

\* a finished run that found a volume without snapshots
C12_Witness ==
    /\ flow = "deletion" /\ Finished
    /\ \E k \in 1..Len(listed_totals) :
        /\ listed_totals[k].total = 0
        /\ Cardinality(SuccessAlertsFor(listed_totals[k].vol)) = 1


\* the fourteen retention values an ad-hoc backup may ask for
FourteenValues ==
    {3, 7, 15, 30, 45, 60, 67, 90, 180, 365, 730, 1095, 1460, 1825}

\* C13: an ad-hoc backup run passes input validation if and only if its
\* retention is one of the fourteen values (90 passes, 91 does not); a
\* scheduled run passes with any number; a rejected run has made no call
\* for credentials or to the backend, sends one FAIL alert and exits 1.
C13_AdhocAllowList ==
    pc # "b_validate" =>
        LET accepted == pc = "b_token"
        IN  /\ Cardinality(FourteenValues) = 14
            /\ is_adhoc_backup =>
                 (accepted <=> (IsSome(retention_days)
                                  /\ Val(retention_days) \in FourteenValues))
            /\ ~ is_adhoc_backup => (accepted <=> IsSome(retention_days))
            /\ accepted => (calls = << >> /\ alerts = << >> /\ exit_code = None)
            /\ ~ accepted =>
                 /\ pc = "idle" /\ exit_code = Some(1)
                 /\ Len(calls) = 1
                 /\ calls[1].op \in {"validateNumeric", "validateAdhocAllowed"}
                 /\ Len(alerts) = 1 /\ alerts[1].type = "FAIL"

\* an ad-hoc run asking for 91 days was rejected
C13_Witness ==
    /\ is_adhoc_backup /\ retention_days = Some(91)
    /\ pc = "idle" /\ exit_code = Some(1)
    /\ calls[1].op = "validateAdhocAllowed"


LimitCheckFailed(i) == calls[i].op = "validateSnapshotCountUnder" /\ ~ calls[i].ok

\* C14: after a failed snapshot-count check against the limit of 200 no
\* createSnapshot is requested for that volume, the volume adds nothing to
\* snapshots_created or to the backend, and one FAIL alert is sent for it.
C14_NoCreateAfterLimitFailure ==
    flow = "backup" =>
        \A i \in CallIdx :
            LimitCheckFailed(i) =>
                /\ ~ Requested("createSnapshot", calls[i].vol)
                /\ Cardinality(FailAlertsFor(calls[i].vol)) = 1
                /\ snapshots_created = Cardinality(CreateSuccesses)
                /\ ~ \E c \in created_log : c.vol = calls[i].vol /\ c.run = runs

\* a finished run whose second volume failed the limit check after the
\* first one was snapshotted
C14_Witness ==
    /\ flow = "backup" /\ Finished /\ Len(afs_list) = 2
    /\ Succeeded("createSnapshot", afs_list[1])
    /\ \E i \in CallIdx : LimitCheckFailed(i) /\ calls[i].vol = afs_list[2]
    /\ snapshots_created = 1


SoftDeleteOps == {"isSoftDeleteEnabled", "enableSoftDelete"}
SoftDeleteAlerts == { a \in AlertIdx : alerts[a].site = "enable_softdelete" }
SoftDeleteFailed(i) == calls[i].op \in SoftDeleteOps /\ ~ calls[i].ok

\* C15: enableSoftDelete is requested only right after an isSoftDeleteEnabled
\* query that answered "not enabled" (an enabled account gets no request),
\* and a failure of the query or of the enable call sends exactly one FAIL
\* alert, sets no exit status, and is followed by listVolumes and the
\* per-volume steps.
C15_SoftDeleteGuardNotFatal ==
    flow = "backup" =>
        /\ pc = "b_enable" => ~ softdelete
        /\ \A i \in CallIdx :
             calls[i].op = "enableSoftDelete" =>
                 /\ i > 1
                 /\ calls[i - 1].op = "isSoftDeleteEnabled" /\ calls[i - 1].ok
                 /\ softdelete = calls[i].ok
        /\ Cardinality(SoftDeleteAlerts) =
               Cardinality({ i \in CallIdx : SoftDeleteFailed(i) })
        /\ \A i \in CallIdx :
             SoftDeleteFailed(i) =>
                 /\ Cardinality(SoftDeleteAlerts) = 1
                 /\ \A a \in SoftDeleteAlerts : alerts[a].type = "FAIL"
                 /\ IF i = Len(calls)
                    THEN pc = "b_list" /\ exit_code = None
                    ELSE calls[i + 1].op = "listVolumes"
                 /\ EndedFatal => FatalCall.op \in RunFatalOps

\* a finished run that created a snapshot although the soft-delete query
\* failed, and one although the enable call failed
C15_Witness ==
    /\ flow = "backup" /\ Finished /\ exit_code = Some(0)
    /\ \E i \in CallIdx : SoftDeleteFailed(i) /\ calls[i].op = "enableSoftDelete"
    /\ CreateSuccesses # {}
    /\ ~ softdelete


ListedNoVolumes ==
    /\ calls # << >>
    /\ calls[Len(calls)].op = "listVolumes" /\ calls[Len(calls)].ok
    /\ afs_list = << >>
    /\ pc = "idle"

\* C16: in both flows a run whose listVolumes returned zero volumes ends
\* there with exit status 0: no FAIL alert comes from main()'s except
\* clause, nothing is requested after the listing, and no summary is logged.
C16_NoVolumesExitsZero ==
    /\ \A i \in CallIdx :
         (calls[i].op = "listVolumes" /\ calls[i].ok /\ afs_list = << >>) =>
             i = Len(calls) /\ pc = "idle"
    /\ ListedNoVolumes =>
         /\ exit_code = Some(0)
         /\ ~ \E a \in AlertIdx : alerts[a].site = "main"
         /\ summary = None

\* a deletion run and a backup run that ended on an empty volume list
C16_Witness ==
    /\ ListedNoVolumes /\ runs > 0
    /\ exit_code = Some(0)
    /\ \A a \in AlertIdx : alerts[a].type # "FAIL"


DeleteSuccesses == { i \in CallIdx : calls[i].op = "deleteSnapshot" /\ calls[i].ok }
CountersCountSuccesses ==
    /\ snapshots_created = Cardinality(CreateSuccesses)
    /\ deleted_snapshots = Cardinality(DeleteSuccesses)
\* one step inside a run: a counter never goes down, goes up by one at
\* most, and only in the step that appends a successful call of its own
\* operation
CountersStep ==
    runs' = runs =>
        /\ snapshots_created' \in {snapshots_created, snapshots_created + 1}
        /\ deleted_snapshots' \in {deleted_snapshots, deleted_snapshots + 1}
        /\ snapshots_created' # snapshots_created =>
               /\ calls' # calls
               /\ calls'[Len(calls')].op = "createSnapshot" /\ calls'[Len(calls')].ok
        /\ deleted_snapshots' # deleted_snapshots =>
               /\ calls' # calls
               /\ calls'[Len(calls')].op = "deleteSnapshot" /\ calls'[Len(calls')].ok

\* C17: at every point of a run snapshots_created is the number of
\* createSnapshot calls that succeeded so far and deleted_snapshots the
\* number of deleteSnapshot calls that succeeded so far; no step of a run
\* lowers a counter, and a step raises one only on a successful call.
C17_CountersCountSuccesses ==
    [] CountersCountSuccesses /\ [][CountersStep]_vars

\* a finished deletion run with one failed and one successful deleteSnapshot
\* that reports 1
C17_Witness ==
    /\ flow = "deletion" /\ Finished
    /\ \E i \in CallIdx : DeleteFailed(i)
    /\ Cardinality(DeleteSuccesses) = 1
    /\ summary = Some(1)


\* the step of main() a call belongs to
StepOf(op) ==
    CASE op \in {"validateNumeric", "validateAdhocAllowed"} -> 1
      [] op = "getToken" -> 2
      [] op = "validateAccount" -> 3
      [] op \in SoftDeleteOps -> 4
      [] op = "listVolumes" -> 5
      [] OTHER -> 6
InputsValid ==
    /\ validate_is_numeric(retention_days)
    /\ is_adhoc_backup => validate_allowed_adhoc_backup_retention_days(retention_days)
PassedBefore(i, op) == \E j \in 1..(i - 1) : calls[j].op = op /\ calls[j].ok
GuardDoneBefore(i) ==
    /\ \E j \in 1..(i - 1) : calls[j].op = "isSoftDeleteEnabled"
    /\ \A j \in i..Len(calls) : calls[j].op \notin SoftDeleteOps

\* C18: the calls of a backup run come in the order of main()'s steps:
\* getToken only with valid inputs, validateAccount only after a successful
\* getToken, the soft-delete calls only after a successful validateAccount,
\* listVolumes only after the soft-delete guard was run and with no guard
\* call after it, and the per-volume calls (createSnapshot among them) only
\* after a successful listVolumes.
C18_CreationStepOrder ==
    flow = "backup" =>
        /\ \A i \in 1..(Len(calls) - 1) : StepOf(calls[i].op) <= StepOf(calls[i + 1].op)
        /\ \A i \in CallIdx :
             LET step == StepOf(calls[i].op)
             IN  /\ step = 1 => ~ InputsValid /\ Len(calls) = 1
                 /\ step >= 2 => InputsValid
                 /\ step >= 3 => PassedBefore(i, "getToken")
                 /\ step >= 4 => PassedBefore(i, "validateAccount")
                 /\ step >= 5 => GuardDoneBefore(i)
                 /\ step >= 6 => PassedBefore(i, "listVolumes")

\* a finished ad-hoc run that passed every step: soft delete was enabled
\* and a snapshot created
C18_Witness ==
    /\ flow = "backup" /\ Finished /\ is_adhoc_backup
    /\ Len(calls) >= 6
    /\ calls[4].op = "enableSoftDelete" /\ calls[4].ok
    /\ calls[5].op = "listVolumes"
    /\ \E i \in CallIdx : calls[i].op = "createSnapshot" /\ calls[i].ok /\ i > 5


\* the run got past input validation, getToken and validateAccount and
\* listed at least one volume
ReachedVolumeLoop ==
    /\ Succeeded("getToken", NoVol) /\ Succeeded("validateAccount", NoVol)
    /\ Succeeded("listVolumes", NoVol) /\ afs_list # << >>

\* C19: a run that reached the volume loop with a non-empty list has
\* logged the summary line with its counter by the time it ends, whatever
\* existence check, limit check, create, listing or delete failed.
C19_SummaryAlwaysLogged ==
    (Finished /\ ReachedVolumeLoop) =>
        summary = Some(IF flow = "backup" THEN snapshots_created ELSE deleted_snapshots)


CallsOf(op) == { i \in CallIdx : calls[i].op = op }

\* C20: within a run enableSoftDelete is requested at most once,
\* createSnapshot at most once for a volume and deleteSnapshot at most once
\* for a snapshot of a volume; in particular a failed mutating call is
\* never followed by a second request of the same call.
C20_NoMutatingCallRetried ==
    /\ Cardinality(CallsOf("enableSoftDelete")) <= 1
    /\ \A i, j \in CallsOf("createSnapshot") : calls[i].vol = calls[j].vol => i = j
    /\ \A i, j \in CallsOf("deleteSnapshot") :
         (calls[i].vol = calls[j].vol /\ calls[i].snap.name = calls[j].snap.name) => i = j
    /\ \A i \in CallIdx :
         (calls[i].op \in MutatingOps /\ ~ calls[i].ok) =>
             \A j \in (i + 1)..Len(calls) :
                 ~ (calls[j].op = calls[i].op /\ calls[j].vol = calls[i].vol
                    /\ calls[j].snap = calls[i].snap)

\* a finished deletion run in which a deleteSnapshot failed and the next
\* snapshot of the same volume was deleted
C20_Witness ==
    /\ flow = "deletion" /\ Finished
    /\ \E i, j \in CallsOf("deleteSnapshot") :
         /\ i < j /\ ~ calls[i].ok /\ calls[j].ok
         /\ calls[i].vol = calls[j].vol
    /\ Cardinality(CallsOf("deleteSnapshot")) = 2


\* the loop of main() is still inside the body of the listed volume vol
InProcessing(vol) ==
    /\ pc \in {"d_snaps", "d_loop", "d_success"}
    /\ afs_list[idx] = vol
SuccessAlerts == { a \in AlertIdx : alerts[a].type = "SUCCESS" }

\* C21: in a deletion run every volume that passed validateExists has no
\* SUCCESS alert while its snapshots are being processed and exactly one
\* once that has ended, also when listSnapshots failed (its FAIL alert for
\* the volume then precedes the SUCCESS alert) and when deleteSnapshot
\* calls failed; a run that reached its end has sent as many SUCCESS alerts
\* as it listed volumes.
C21_OneSuccessPerVolume ==
    flow = "deletion" =>
        /\ \A k \in 1..Len(afs_list) :
             LET v == afs_list[k]
             IN  /\ Succeeded("validateExists", v) =>
                       Cardinality(SuccessAlertsFor(v)) = IF InProcessing(v) THEN 0 ELSE 1
                 /\ ~ Succeeded("validateExists", v) => SuccessAlertsFor(v) = {}
                 /\ \A a \in FailAlertsFor(v) : \A b \in SuccessAlertsFor(v) : a < b
                 /\ (\E i \in CallIdx :
                        calls[i].op = "listSnapshots" /\ calls[i].vol = v /\ ~ calls[i].ok)
                       => Cardinality(FailAlertsFor(v)) = 1
        /\ (Finished /\ exit_code = Some(0)) =>
               Cardinality(SuccessAlerts) = Len(afs_list)

\* a finished run over two volumes: the listing of one failed, a
\* deleteSnapshot on the other failed, and both got their SUCCESS alert
C21_Witness ==
    /\ flow = "deletion" /\ Finished /\ exit_code = Some(0)
    /\ Len(afs_list) = 2
    /\ ~ Succeeded("listSnapshots", afs_list[1])
    /\ \E i \in CallIdx : DeleteFailed(i) /\ calls[i].vol = afs_list[2]
    /\ Cardinality(SuccessAlertsFor(afs_list[1])) = 1
    /\ Cardinality(SuccessAlertsFor(afs_list[2])) = 1

====
